---------------------------- MODULE Spec2Model ----------------------------
(***************************************************************************)
(* A model of markdown_to_word.py: the inline span tokenizer, the          *)
(* configuration loader and the line-by-line converter that assembles the  *)
(* Word document.                                                          *)
(*                                                                         *)
(* Text is a sequence of one-character strings.  Positions inside the      *)
(* regular-expression operators are 1-based (TLA+ sequences); the match    *)
(* records carry Python's 0-based start() and exclusive end().             *)
(***************************************************************************)
EXTENDS Integers, Sequences, FiniteSets, TLC

VARIABLES
    line,            \* the text handed to the inline tokenizer
    remaining_text,  \* tokenizer: text not yet consumed
    formatted_runs,  \* tokenizer: the (format_type, text) pairs emitted so far
    tok_pc,          \* tokenizer: "loop" while the while-loop runs, "done" after
    DEFAULT_CONFIG,  \* the module-level dictionary of lines 21-147
    config,          \* the dictionary load_config returned last
    config_file,     \* the argument of the last load_config call
    warned,          \* whether that call printed its two warning lines
    input_files,     \* convert_markdown_to_docx: the files it was called with
    pc,              \* where the conversion is: "start", "file", "lines",
                     \* "done", or "raised" when an exception has left it
    index,           \* the index of the file loop (0-based)
    lines,           \* md_content.split of the current file
    i,               \* the index of the line loop (0-based)
    in_code_block,
    code_language,
    code_content,
    chapter_title,
    doc,             \* the document under construction
    output,          \* the documents doc.save has written
    image_probe      \* what the file system, the network and the imaging
                     \* library answered for the last image directive

tokVars == <<line, remaining_text, formatted_runs, tok_pc>>
cfgVars == <<DEFAULT_CONFIG, config, config_file, warned>>
codeVars == <<in_code_block, code_language, code_content>>
docVars == <<input_files, pc, index, lines, i, codeVars, chapter_title, doc,
             output, image_probe>>
vars == <<tokVars, cfgVars, docVars>>

----------------------------------------------------------------------------
(* Small helpers over sets of positions and sequences.                     *)

\* The backquote character, written "~" here because a TLA+ string cannot
\* hold a backquote.  No other character of the model is "~".
BQ == "~"

Min(S) == CHOOSE x \in S : \A y \in S : x <= y

Drop(s, k) == SubSeq(s, k + 1, Len(s))

RECURSIVE Flatten(_)
Flatten(ss) == IF ss = <<>> THEN <<>> ELSE Head(ss) \o Flatten(Tail(ss))

----------------------------------------------------------------------------
(* Configuration trees.  A JSON value is a node: Leaf(v) for a scalar or   *)
(* Dict(m) for an object, m a function from its keys to nodes.  Integers   *)
(* are written as integers, every other scalar as a string ("True",        *)
(* "2.5", "Arial").                                                        *)

Leaf(v) == [t |-> "leaf", v |-> v]
Dict(m) == [t |-> "dict", m |-> m]
RGB(r, g, b) == Dict([r |-> Leaf(r), g |-> Leaf(g), b |-> Leaf(b)])

\* DEFAULT_CONFIG as the module defines it.
BuiltinDefaults ==
    [ styles |-> Dict([
        h1 |-> Dict([font_name |-> Leaf("Arial"), font_size |-> Leaf(18),
                     bold |-> Leaf("True"), color |-> RGB(0, 51, 102),
                     space_before |-> Leaf(24), space_after |-> Leaf(12),
                     keep_with_next |-> Leaf("True")]),
        h2 |-> Dict([font_name |-> Leaf("Arial"), font_size |-> Leaf(16),
                     bold |-> Leaf("True"), color |-> RGB(0, 102, 153),
                     space_before |-> Leaf(18), space_after |-> Leaf(10),
                     keep_with_next |-> Leaf("True")]),
        h3 |-> Dict([font_name |-> Leaf("Arial"), font_size |-> Leaf(14),
                     bold |-> Leaf("True"), color |-> RGB(0, 153, 204),
                     space_before |-> Leaf(14), space_after |-> Leaf(8),
                     keep_with_next |-> Leaf("True")]),
        h4 |-> Dict([font_name |-> Leaf("Arial"), font_size |-> Leaf(12),
                     bold |-> Leaf("True"), color |-> RGB(0, 153, 204),
                     space_before |-> Leaf(12), space_after |-> Leaf(6),
                     keep_with_next |-> Leaf("True")]),
        normal |-> Dict([font_name |-> Leaf("Times New Roman"),
                     font_size |-> Leaf(11), color |-> RGB(0, 0, 0),
                     space_after |-> Leaf(8), line_spacing |-> Leaf("1.15")]),
        code |-> Dict([font_name |-> Leaf("Consolas"), font_size |-> Leaf(10),
                     color |-> RGB(128, 0, 128), space_after |-> Leaf(8)]),
        code_block |-> Dict([font_name |-> Leaf("Consolas"),
                     font_size |-> Leaf(10), color |-> RGB(0, 0, 0),
                     background |-> RGB(245, 245, 245),
                     space_before |-> Leaf(8), space_after |-> Leaf(8)]),
        list_item |-> Dict([font_name |-> Leaf("Times New Roman"),
                     font_size |-> Leaf(11), color |-> RGB(0, 0, 0),
                     space_after |-> Leaf(0), left_indent |-> Leaf("0.5")]),
        table |-> Dict([font_name |-> Leaf("Times New Roman"),
                     font_size |-> Leaf(10),
                     header_bg_color |-> RGB(240, 240, 240),
                     border_color |-> RGB(0, 0, 0),
                     space_before |-> Leaf(12), space_after |-> Leaf(12)]),
        caption |-> Dict([font_name |-> Leaf("Times New Roman"),
                     font_size |-> Leaf(10), italic |-> Leaf("True"),
                     color |-> RGB(80, 80, 80),
                     space_before |-> Leaf(6), space_after |-> Leaf(12),
                     alignment |-> Leaf("center")]),
        toc_heading |-> Dict([font_name |-> Leaf("Arial"),
                     font_size |-> Leaf(16), bold |-> Leaf("True"),
                     color |-> RGB(0, 0, 0),
                     space_before |-> Leaf(24), space_after |-> Leaf(12)]),
        toc_item |-> Dict([font_name |-> Leaf("Times New Roman"),
                     font_size |-> Leaf(11), color |-> RGB(0, 0, 0),
                     space_after |-> Leaf(3)]) ]),
      document |-> Dict([
        add_file_headers |-> Leaf("True"),
        page_break_between_files |-> Leaf("True"),
        margins |-> Dict([top |-> Leaf("2.5"), bottom |-> Leaf("2.5"),
                          left |-> Leaf("2.5"), right |-> Leaf("2.5")]),
        page_size |-> Dict([width |-> Leaf("21.0"), height |-> Leaf("29.7")]),
        orientation |-> Leaf("portrait"),
        generate_toc |-> Leaf("True"),
        toc_title |-> Leaf("Table des matieres"),   \* unaccented here
        header |-> Dict([enabled |-> Leaf("True"), content |-> Leaf("{chapter}"),
                         first_page_different |-> Leaf("True")]),
        footer |-> Dict([enabled |-> Leaf("True"), content |-> Leaf("Page {page}"),
                         first_page_different |-> Leaf("True")]),
        image_max_width |-> Leaf(15) ]) ]

\* (the mutant first: every key of the override assigned, none merged)
merge_configs_shallow(default_config, user_config) ==
    [key \in DOMAIN default_config \cup DOMAIN user_config |->
        IF key \in DOMAIN user_config THEN user_config[key]
        ELSE default_config[key]]

\* merge_configs(default_config, user_config): the dictionary default_config
\* is after the call.  Both arguments are the key-to-node functions of two
\* dictionaries.
RECURSIVE merge_configs(_, _)
merge_configs(default_config, user_config) ==
    [key \in DOMAIN default_config \cup DOMAIN user_config |->
        IF key \in DOMAIN user_config
        THEN IF /\ key \in DOMAIN default_config
                /\ default_config[key].t = "dict"
                /\ user_config[key].t = "dict"
             THEN Dict(merge_configs(default_config[key].m, user_config[key].m))
             ELSE user_config[key]
        ELSE default_config[key]]

\* What a load_config argument stands for: no argument (None), or a path
\* with what the file system and json.load make of it.
NoConfigFile == [given |-> FALSE, exists |-> FALSE, parses |-> FALSE, json |-> Leaf("")]
MissingFile  == [given |-> TRUE,  exists |-> FALSE, parses |-> FALSE, json |-> Leaf("")]
BadJsonFile  == [given |-> TRUE,  exists |-> TRUE,  parses |-> FALSE, json |-> Leaf("")]
JsonFile(v)  == [given |-> TRUE,  exists |-> TRUE,  parses |-> TRUE,  json |-> v]

\* The try block of load_config raises: json.load fails, or the parsed value
\* is no dictionary and merge_configs fails on user_config.items() before it
\* assigns anything.
load_raises(f) == ~f.parses \/ f.json.t # "dict"

\* The merge is attempted and succeeds.
load_merges(f) == f.given /\ f.exists /\ ~load_raises(f)

\* load_config(config_file) called when the module dictionary is dflt.
\* config = DEFAULT_CONFIG.copy() copies the top level only: a top-level key
\* whose default and override are both dictionaries is merged inside the
\* dictionary that DEFAULT_CONFIG still refers to; any other key of the
\* override is assigned in the copy alone.
load_config(dflt, f) ==
    IF load_merges(f)
    THEN [config  |-> merge_configs(dflt, f.json.m),
          default |-> [key \in DOMAIN dflt |->
                          IF /\ key \in DOMAIN f.json.m
                             /\ dflt[key].t = "dict"
                             /\ f.json.m[key].t = "dict"
                          THEN Dict(merge_configs(dflt[key].m, f.json.m[key].m))
                          ELSE dflt[key]],
          warned  |-> FALSE]
    ELSE [config  |-> dflt,
          default |-> dflt,
          warned  |-> f.given /\ f.exists]

\* The state before any load_config call: the module has been imported.
CfgStart ==
    /\ DEFAULT_CONFIG = BuiltinDefaults
    /\ config = <<>>
    /\ config_file = NoConfigFile
    /\ warned = FALSE

\* The tokenizer not in use.
TokIdle ==
    /\ line = <<>>
    /\ remaining_text = <<>>
    /\ formatted_runs = <<>>
    /\ tok_pc = "idle"

----------------------------------------------------------------------------
(* The four re.search calls of the tokenizer.  A match is a record         *)
(* [ok, start, end, text, target]; NoMatch models None.                    *)

NoMatch == [ok |-> FALSE, start |-> 0, end |-> 0, text |-> <<>>, target |-> <<>>]

\* re.search(r'(\*\*|__)(.*?)(\1)', s): the leftmost doubled delimiter that
\* has a later occurrence of the same doubled delimiter; lazy group 2.
bold_match(s) ==
    LET n == Len(s)
        Open(p) == p + 1 <= n /\ s[p] \in {"*", "_"} /\ s[p + 1] = s[p]
        Close(p) == {q \in (p + 2)..(n - 1) : s[q] = s[p] /\ s[q + 1] = s[p]}
        Starts == {p \in 1..n : Open(p) /\ Close(p) # {}}
    IN  IF Starts = {} THEN NoMatch
        ELSE LET p == Min(Starts)
                 q == Min(Close(p))
             IN  [ok |-> TRUE, start |-> p - 1, end |-> q + 1,
                  text |-> SubSeq(s, p + 2, q - 1), target |-> <<>>]

\* re.search(r'([*_])((?!\1).*?)(\1)', s): the leftmost single delimiter not
\* directly followed by the same character, with a later occurrence of it.
italic_match(s) ==
    LET n == Len(s)
        Open(p) == s[p] \in {"*", "_"} /\ (p + 1 > n \/ s[p + 1] # s[p])
        Close(p) == {q \in (p + 1)..n : s[q] = s[p]}
        Starts == {p \in 1..n : Open(p) /\ Close(p) # {}}
    IN  IF Starts = {} THEN NoMatch
        ELSE LET p == Min(Starts)
                 q == Min(Close(p))
             IN  [ok |-> TRUE, start |-> p - 1, end |-> q,
                  text |-> SubSeq(s, p + 1, q - 1), target |-> <<>>]

\* re.search of the inline-code pattern, a backtick, (.*?), a backtick.
code_match(s) ==
    LET n == Len(s)
        Close(p) == {q \in (p + 1)..n : s[q] = BQ}
        Starts == {p \in 1..n : s[p] = BQ /\ Close(p) # {}}
    IN  IF Starts = {} THEN NoMatch
        ELSE LET p == Min(Starts)
                 q == Min(Close(p))
             IN  [ok |-> TRUE, start |-> p - 1, end |-> q,
                  text |-> SubSeq(s, p + 1, q - 1), target |-> <<>>]

\* re.search(r'\[(.*?)\]\((.*?)\)', s): group 1 ends at the first "](" that
\* a ")" follows, group 2 at the first ")" after it.
link_match(s) ==
    LET n == Len(s)
        Paren(q) == {r \in (q + 2)..n : s[r] = ")"}
        Mid(p) == {q \in (p + 1)..(n - 1) :
                      s[q] = "]" /\ s[q + 1] = "(" /\ Paren(q) # {}}
        Starts == {p \in 1..n : s[p] = "[" /\ Mid(p) # {}}
    IN  IF Starts = {} THEN NoMatch
        ELSE LET p == Min(Starts)
                 q == Min(Mid(p))
                 r == Min(Paren(q))
             IN  [ok |-> TRUE, start |-> p - 1, end |-> r,
                  text |-> SubSeq(s, p + 1, q - 1),
                  target |-> SubSeq(s, q + 2, r - 1)]

\* matches = [(bold_match, 'bold'), (italic_match, 'italic'),
\*            (code_match, 'code'), (link_match, 'link')]
matches(s) ==
    << [m |-> bold_match(s),   t |-> "bold"],
       [m |-> italic_match(s), t |-> "italic"],
       [m |-> code_match(s),   t |-> "code"],
       [m |-> link_match(s),   t |-> "link"] >>

\* valid_matches = [(m, t) for m, t in matches if m]
valid_matches(s) == SelectSeq(matches(s), LAMBDA e : e.m.ok)

\* list.sort(key=lambda x: x[0].start()): a stable sort, so entries with the
\* same start keep their order in the list.
RECURSIVE InsertByStart(_, _)
InsertByStart(e, sorted) ==
    IF sorted = <<>> THEN <<e>>
    ELSE IF e.m.start < Head(sorted).m.start THEN <<e>> \o sorted
    ELSE <<Head(sorted)>> \o InsertByStart(e, Tail(sorted))

RECURSIVE SortFrom(_, _)
SortFrom(k, seq) ==
    IF k = 0 THEN <<>> ELSE InsertByStart(seq[k], SortFrom(k - 1, seq))

\* The sort left out: the list stays in its construction order.
SortByStart_unsorted(seq) == seq

SortByStart(seq) == SortFrom(Len(seq), seq)

\* The typed span appended for the chosen match: ('bold', group(2)),
\* ('italic', group(2)), ('code', group(1)), ('link', group(1)).  The pair
\* has no third component: the link target (group 2 of the link pattern) is
\* not stored.
\* (the mutant first: the link's group(2) taken where group(1) is meant)
typed_run_url(e) ==
    [fmt |-> e.t, text |-> IF e.t = "link" THEN e.m.target ELSE e.m.text]

typed_run(e) == [fmt |-> e.t, text |-> e.m.text]

\* One pass of the body of the loop "while remaining_text".  brk is TRUE
\* when the pass ends in break.
tokenize_step(rem, runs) ==
    LET valid == valid_matches(rem)
    IN  IF valid # <<>>
        THEN LET e == SortByStart(valid)[1]
                 before == IF e.m.start > 0
                           THEN <<[fmt |-> "normal", text |-> SubSeq(rem, 1, e.m.start)]>>
                           ELSE <<>>
             IN  [rem  |-> Drop(rem, e.m.end),
                  runs |-> runs \o before \o <<typed_run(e)>>,
                  brk  |-> FALSE]
        ELSE [rem  |-> rem,
              runs |-> Append(runs, [fmt |-> "normal", text |-> rem]),
              brk  |-> TRUE]

\* The whole while-loop, as the paragraph and list-item handlers run it.
RECURSIVE tokenize(_, _)
tokenize(rem, runs) ==
    IF rem = <<>> THEN runs
    ELSE LET r == tokenize_step(rem, runs)
         IN  IF r.brk THEN r.runs ELSE tokenize(r.rem, r.runs)

----------------------------------------------------------------------------
(* String operations of the line classifier.                               *)

IsSpace(c) == c \in {" ", "\t", "\r", "\n"}

\* The number of leading elements of s that satisfy Test.
LeadingCount(s, Test(_)) ==
    LET stops == {k \in 1..Len(s) : ~Test(s[k])}
    IN  IF stops = {} THEN Len(s) ELSE Min(stops) - 1

RECURSIVE Reverse(_)
Reverse(s) == IF s = <<>> THEN <<>> ELSE Append(Reverse(Tail(s)), Head(s))

\* str.strip() and str.strip('|')
StripWith(s, Test(_)) ==
    LET a == Drop(s, LeadingCount(s, Test))
    IN  SubSeq(a, 1, Len(a) - LeadingCount(Reverse(a), Test))

strip(s) == StripWith(s, IsSpace)
IsPipe(c) == c = "|"
strip_pipes(s) == StripWith(s, IsPipe)

startswith(s, prefix) ==
    Len(prefix) <= Len(s) /\ SubSeq(s, 1, Len(prefix)) = prefix

endswith(s, suffix) ==
    Len(suffix) <= Len(s) /\ SubSeq(s, Len(s) - Len(suffix) + 1, Len(s)) = suffix

\* str.split(sep) for a one-character separator: the fields between the
\* separators, empty fields included.
RECURSIVE split(_, _)
split(s, sep) ==
    LET k == LeadingCount(s, LAMBDA c : c # sep)
    IN  IF k = Len(s) THEN <<s>>
        ELSE <<SubSeq(s, 1, k)>> \o split(Drop(s, k + 1), sep)

\* sep.join(parts)
RECURSIVE join(_, _)
join(parts, sep) ==
    IF parts = <<>> THEN <<>>
    ELSE IF Len(parts) = 1 THEN parts[1]
    ELSE parts[1] \o <<sep>> \o join(Tail(parts), sep)

\* os.path.basename: what follows the last "/".
basename(path) == Reverse(SubSeq(Reverse(path), 1,
                                 LeadingCount(Reverse(path), LAMBDA c : c # "/")))

\* os.path.dirname(path) for a path with a directory part.
dirname(path) == SubSeq(path, 1, Len(path) - Len(basename(path)) - 1)

\* os.path.abspath(path), the working directory being /w.
abspath(path) == IF startswith(path, <<"/">>) THEN path ELSE <<"/", "w", "/">> \o path

\* The tail "\s+(.+)$" of the heading and list patterns, applied to the
\* text after the marker.  \s+ takes the whole run of whitespace and (.+)
\* the rest of the line; when nothing is left, \s+ gives its last character
\* back to (.+), which needs a run of two or more.
ws_then_text(rest) ==
    LET w == LeadingCount(rest, IsSpace)
    IN  IF w = 0 THEN [ok |-> FALSE, text |-> <<>>]
        ELSE IF w < Len(rest) THEN [ok |-> TRUE, text |-> Drop(rest, w)]
        ELSE IF w >= 2 THEN [ok |-> TRUE, text |-> <<rest[w]>>]
        ELSE [ok |-> FALSE, text |-> <<>>]

IsHash(c) == c = "#"
IsDigit(c) == c \in {"0", "1", "2", "3", "4", "5", "6", "7", "8", "9"}

\* re.match(r'^(#{1,6})\s+(.+)$', line): level is len(group(1)), text is
\* group(2).  Seven or more "#" never match: whitespace must follow the run.
header_match(s) ==
    LET h == LeadingCount(s, IsHash)
        t == ws_then_text(Drop(s, h))
    IN  IF h >= 1 /\ h <= 6 /\ t.ok
        THEN [ok |-> TRUE, level |-> h, text |-> t.text]
        ELSE [ok |-> FALSE, level |-> 0, text |-> <<>>]

\* re.match(r'^(\s*)([\*\-\+]|\d+\.)\s+(.+)$', line): indentation is
\* len(group(1)), marker is group(2), content is group(3).
list_match(s) ==
    LET ind == LeadingCount(s, IsSpace)
        a == Drop(s, ind)
        d == LeadingCount(a, IsDigit)
        mlen == IF a # <<>> /\ a[1] \in {"*", "-", "+"} THEN 1
                ELSE IF d >= 1 /\ d < Len(a) /\ a[d + 1] = "." THEN d + 1
                ELSE 0
        t == ws_then_text(Drop(a, mlen))
    IN  IF mlen > 0 /\ t.ok
        THEN [ok |-> TRUE, indentation |-> ind, marker |-> SubSeq(a, 1, mlen),
              content |-> t.text]
        ELSE [ok |-> FALSE, indentation |-> 0, marker |-> <<>>, content |-> <<>>]

\* re.match(r'!\[(.*?)\]\((.*?)\)', line): the link pattern right after a
\* leading "!", anchored at the start of the line.
img_match(s) ==
    LET n == Len(s)
        Paren(q) == {r \in (q + 2)..n : s[r] = ")"}
        Mid == {q \in 3..(n - 1) : s[q] = "]" /\ s[q + 1] = "(" /\ Paren(q) # {}}
    IN  IF n >= 2 /\ s[1] = "!" /\ s[2] = "[" /\ Mid # {}
        THEN LET q == Min(Mid)
                 r == Min(Paren(q))
             IN  [ok |-> TRUE, alt |-> SubSeq(s, 3, q - 1), path |-> SubSeq(s, q + 2, r - 1)]
        ELSE [ok |-> FALSE, alt |-> <<>>, path |-> <<>>]

\* line.strip().startswith of three backquotes (line 803)
is_fence(s) == startswith(strip(s), <<BQ, BQ, BQ>>)

\* line.strip().startswith('|') and line.strip().endswith('|') (line 946)
is_table_line(s) == startswith(strip(s), <<"|">>) /\ endswith(strip(s), <<"|">>)

\* [cell.strip() for cell in table_line.strip('|').split('|')]
table_cells(s) ==
    LET fields == split(strip_pipes(s), "|")
    IN  [k \in 1..Len(fields) |-> strip(fields[k])]

----------------------------------------------------------------------------
(* The document under construction.  doc.body is the sequence of block     *)
(* items added so far; doc.headers and doc.footers hold, per section, the  *)
(* header and footer definition of that section, if it has one.            *)

Max(S) == CHOOSE x \in S : \A y \in S : x >= y

\* Reading the loaded configuration.
cfg(section, key) == config[section].m[key]
truthy(node) == IF node.t = "leaf" THEN node.v \notin {"False", ""}
                ELSE DOMAIN node.m # {}
generate_toc == truthy(cfg("document", "generate_toc"))
header_enabled == truthy(cfg("document", "header").m["enabled"])
footer_enabled == truthy(cfg("document", "footer").m["enabled"])

\* A run of text: fmt is the format_type it was made for, applied the style
\* profiles apply_style was called with on it, in order.
Run(text, fmt, applied) == [text |-> text, fmt |-> fmt, applied |-> applied]

\* doc.add_paragraph() and what the handlers set on the paragraph: style is
\* the Word style, profile what apply_para_style was called with ("none" if
\* it was not), indent the left indent in units of list_item.left_indent.
Paragraph(style, runs, profile, indent, centered) ==
    [kind |-> "paragraph", style |-> style, runs |-> runs, profile |-> profile,
     indent |-> indent, centered |-> centered]

EmptyParagraph == Paragraph("Normal", <<>>, "none", 0, FALSE)

\* doc.add_heading(text, level) followed by apply_heading_style if profile
\* is not "none".
Heading(text, level, profile) ==
    [kind |-> "heading", text |-> text, level |-> level, profile |-> profile]

PageBreak == [kind |-> "page_break"]
SectionBreak == [kind |-> "section_break"]

\* The paragraph holding the TOC field and its placeholder text.
TocField == [kind |-> "toc_field"]

\* doc.add_paragraph(text) followed by apply_para_style(p, styles.normal)
\* (lines 266-267, 276-277, 312-313).
Placeholder(text) ==
    Paragraph("Normal", <<Run(text, "normal", <<"normal">>)>>, "normal", 0, FALSE)

\* Document(): one section, no content, no header or footer definition.
NoDefinition == [def |-> FALSE, text |-> <<>>]
NewDocument == [body |-> <<>>, headers |-> <<NoDefinition>>, footers |-> <<NoDefinition>>]

\* The section whose definition section.header (or .footer) reads and
\* writes: the section itself if it has a definition, else the nearest
\* earlier section that has one, else the first section, which then gets
\* one.  doc.add_section() gives the new section no definition of its own,
\* and the code never sets is_linked_to_previous, so this is how python-docx
\* resolves header.paragraphs in add_header_footer.
definition_section(defs, section) ==
    LET own == {j \in 1..section : defs[j].def}
    IN  IF own = {} THEN 1 ELSE Max(own)

\* header_text.replace("{chapter}", chapter_title) for the templates the
\* model uses: the default "{chapter}", or a text without the placeholder.
header_content(template, title) ==
    IF template = "{chapter}" THEN title ELSE <<template>>

\* add_header_footer(section, header_text, footer_text, config,
\* chapter_title) on the document d, title being the chapter_title.  The
\* footer is the static text with "{page}" removed, followed by a PAGE field.
add_header_footer(d, section, title) ==
    LET hs == definition_section(d.headers, section)
        fs == definition_section(d.footers, section)
        header_text == cfg("document", "header").m["content"].v
    IN  [d EXCEPT
           !.headers = IF header_enabled
                       THEN [@ EXCEPT ![hs] =
                               [def |-> TRUE,
                                text |-> header_content(header_text, title)]]
                       ELSE @,
           !.footers = IF footer_enabled
                       THEN [@ EXCEPT ![fs] = [def |-> TRUE, text |-> <<"Page ", "PAGE">>]]
                       ELSE @]

\* What a section's header shows: the text of the definition it resolves to.
header_shown(d, section) ==
    d.headers[definition_section(d.headers, section)].text

\* doc.add_section(WD_SECTION.NEW_PAGE): a section break in the body and a
\* new last section without header or footer definition.
add_section(d) ==
    [body |-> Append(d.body, SectionBreak),
     headers |-> Append(d.headers, NoDefinition),
     footers |-> Append(d.footers, NoDefinition)]

add_units(d, units) == [d EXCEPT !.body = @ \o units]

\* re.search(r'^#\s+(.+)$', md_content, re.MULTILINE) and group(1).strip(),
\* or "Chapitre".  md_content is the file's lines joined by newlines, and
\* \s+ may run across newlines.
extract_chapter_title(file_lines) ==
    LET c == join(file_lines, "\n")
        n == Len(c)
        Ws(p) == LeadingCount(Drop(c, p), IsSpace)
        Lens(p) == {k \in 1..Ws(p) : p + k + 1 <= n /\ c[p + k + 1] # "\n"}
        Starts == {p \in 1..n :
                     /\ c[p] = "#"
                     /\ (p = 1 \/ c[p - 1] = "\n")
                     /\ Lens(p) # {}}
    IN  IF Starts = {} THEN <<"Chapitre">>
        ELSE LET p == Min(Starts)
                 x == p + Max(Lens(p)) + 1
                 rest == Drop(c, x - 1)
             IN  strip(SubSeq(rest, 1, LeadingCount(rest, LAMBDA ch : ch # "\n")))

----------------------------------------------------------------------------
(* What each branch of the line loop adds to the document.                 *)

\* Lines 814-829: the optional "Code (language):" paragraph, the paragraph
\* with the joined code lines, and an empty paragraph.
code_block_units(language, content) ==
    (IF language # <<>>
     THEN <<Paragraph("Normal",
                      <<Run(<<"Code (">> \o language \o <<"):">>, "bold", <<>>)>>,
                      "none", 0, FALSE)>>
     ELSE <<>>)
    \o <<Paragraph("Normal",
                   <<Run(join(content, "\n"), "normal", <<"code_block">>)>>,
                   "none", 0, FALSE),
         EmptyParagraph>>

StyleKeys == <<"h1", "h2", "h3", "h4", "h5", "h6">>

\* Lines 841-851.
heading_units(m) ==
    LET style_key == StyleKeys[m.level]
    IN  <<Heading(strip(m.text), m.level,
                  IF style_key \in DOMAIN config["styles"].m THEN style_key ELSE "none")>>

\* The runs a handler adds for formatted_runs (lines 927-940, 1066-1079):
\* code runs get the code profile, the others the base profile; after is
\* what apply_para_style applies to every run afterwards, if anything.
styled_runs(runs, base, after) ==
    [k \in 1..Len(runs) |->
        Run(runs[k].text, runs[k].fmt,
            <<IF runs[k].fmt = "code" THEN "code" ELSE base>> \o after)]

\* (the mutant first: every item at level 0, whatever its indentation)
list_units_flat(m) ==
    <<Paragraph(IF m.marker \in {<<"*">>, <<"-">>, <<"+">>} THEN "List Bullet"
                ELSE "List Number",
                styled_runs(tokenize(m.content, <<>>), "list_item", <<>>),
                "none", 1, FALSE)>>

\* Lines 858-940: one list paragraph, its level from the indentation.
list_units(m) ==
    LET current_list_type == IF m.marker \in {<<"*">>, <<"-">>, <<"+">>} THEN "ul" ELSE "ol"
        indent_level == m.indentation \div 2
    IN  <<Paragraph(IF current_list_type = "ul" THEN "List Bullet" ELSE "List Number",
                    styled_runs(tokenize(m.content, <<>>), "list_item", <<>>),
                    "none", indent_level + 1, FALSE)>>

\* (the mutant first: the while-loop of line 949 collects nothing)
table_run_length_none(ls, from) == 0

\* The number of lines from index from (0-based) on that the while-loop of
\* line 949 collects.
RECURSIVE table_run_length(_, _)
table_run_length(ls, from) ==
    IF from < Len(ls) /\ is_table_line(ls[from + 1])
    THEN 1 + table_run_length(ls, from + 1)
    ELSE 0

\* A table cell: its text and what the handler set on its run.
Cell(text, bold, shaded, font_name, font_size) ==
    [text |-> text, bold |-> bold, shaded |-> shaded,
     font_name |-> font_name, font_size |-> font_size]

\* A cell of the grid the handler never assigns.
UntouchedCell == [text |-> <<>>, bold |-> FALSE, shaded |-> FALSE,
                  font_name |-> "", font_size |-> 0]

\* (the mutant first: the separator line kept as a data row)
table_units_keep_separator(table_lines) ==
    IF Len(table_lines) >= 3
    THEN LET header_row == table_cells(table_lines[1])
             rows_data == [k \in 1..(Len(table_lines) - 1) |-> table_cells(table_lines[k + 1])]
         IN  <<[kind |-> "table", rows |-> Len(rows_data) + 1, cols |-> Len(header_row),
                cells |-> <<[j \in 1..Len(header_row) |->
                               Cell(header_row[j], TRUE, TRUE,
                                    cfg("styles", "table").m["font_name"].v, 0)]>>
                          \o [r \in 1..Len(rows_data) |->
                                [j \in 1..Len(header_row) |->
                                   IF j <= Len(rows_data[r])
                                   THEN Cell(rows_data[r][j], FALSE, FALSE,
                                             cfg("styles", "table").m["font_name"].v,
                                             cfg("styles", "table").m["font_size"].v)
                                   ELSE UntouchedCell]]],
               EmptyParagraph>>
    ELSE <<>>

\* Lines 954-997: for three or more collected lines, a grid of
\* len(rows_data) + 1 rows and len(header_row) columns, then an empty
\* paragraph; for fewer lines, nothing.  Header cells are bold, shaded and
\* get the table font name; data cells get the table font name and size.
table_units(table_lines) ==
    IF Len(table_lines) >= 3
    THEN LET header_row == table_cells(table_lines[1])
             rows_data == [k \in 1..(Len(table_lines) - 2) |-> table_cells(table_lines[k + 2])]
             num_cols == Len(header_row)
             font_name == cfg("styles", "table").m["font_name"].v
             font_size == cfg("styles", "table").m["font_size"].v
         IN  <<[kind |-> "table", rows |-> Len(rows_data) + 1, cols |-> num_cols,
                cells |-> <<[j \in 1..num_cols |->
                               Cell(header_row[j], TRUE, TRUE, font_name, 0)]>>
                          \o [r \in 1..Len(rows_data) |->
                                [j \in 1..num_cols |->
                                   IF j <= Len(rows_data[r])
                                   THEN Cell(rows_data[r][j], FALSE, FALSE, font_name, font_size)
                                   ELSE UntouchedCell]]],
               EmptyParagraph>>
    ELSE <<>>

\* Lines 1011-1012.
blank_units == <<EmptyParagraph>>

\* Lines 1017-1082: the runs of the tokenized line, each styled and then
\* styled again with the normal profile by apply_para_style.
paragraph_units(text) ==
    <<Paragraph("Normal", styled_runs(tokenize(text, <<>>), "normal", <<"normal">>),
                "normal", 0, FALSE)>>

\* What the environment answers for one image directive: whether the file
\* is there (for a URL: whether the download produced it), whether
\* Image.open reads it, its width and height in pixels, and whether
\* add_picture takes it.
ImageAnswer(found, opens, width, height, accepted) ==
    [found |-> found, opens |-> opens, width |-> width, height |-> height,
     accepted |-> accepted]

NotAsked == ImageAnswer(FALSE, FALSE, 0, 0, FALSE)

ImageAnswers ==
    { ImageAnswer(FALSE, FALSE, 0, 0, FALSE),
      ImageAnswer(TRUE, FALSE, 0, 0, FALSE),
      ImageAnswer(TRUE, TRUE, 400, 300, TRUE),
      ImageAnswer(TRUE, TRUE, 800, 600, TRUE) }

Http == <<"h", "t", "t", "p", ":", "/", "/">>
Https == <<"h", "t", "t", "p", "s", ":", "/", "/">>

\* Lines 218-226: the file name download_image saves a URL under.
download_filename(url) ==
    LET after_scheme == Drop(url, IF startswith(url, Https) THEN Len(Https) ELSE Len(Http))
        path == Drop(after_scheme, LeadingCount(after_scheme, LAMBDA c : c # "/"))
        filename == basename(path)
    IN  IF filename = <<>> \/ \A k \in 1..Len(filename) : filename[k] # "."
        THEN <<"image_", "hash(url)", ".jpg">>
        ELSE filename

\* (the mutant first: the image keeps its width whatever the maximum is)
resized_width_unbounded(width, max_width_px) == width

\* Lines 288-296: the width an image of the given width is inserted at.
resized_width(width, max_width_px) ==
    IF width > max_width_px THEN max_width_px ELSE width

\* The height add_picture gives a picture of native size width x height
\* when it is called with new_width alone, as on line 304: the native height
\* scaled by new_width / width and rounded (the image having one resolution
\* in both directions).
scaled_height(width, height, new_width) ==
    (2 * height * new_width + width) \div (2 * width)

\* A picture paragraph: centered, the picture new_width by new_height tenths
\* of a pixel.
Picture(new_width, new_height) ==
    [kind |-> "picture", width |-> new_width, height |-> new_height, centered |-> TRUE]

\* (the mutant first: the existence checks left out, the failure of
\* Image.open on a file that is not there escaping the function)
add_image_to_doc_unchecked(img_path, base_path, caption, answer) ==
    [raised |-> ~answer.found, units |-> <<>>]

\* add_image_to_doc(doc, img_path, base_path, config, caption) when the
\* environment answers answer: whether an exception leaves the function,
\* and the items added to the document.  Widths are in tenths of a pixel,
\* one centimetre being 37.8 pixels.
add_image_to_doc(img_path, base_path, caption, answer) ==
    LET is_url == startswith(img_path, Http) \/ startswith(img_path, Https)
        local_path == IF startswith(img_path, <<"/">>) THEN img_path
                      ELSE base_path \o <<"/">> \o img_path
        error_text == <<"[Erreur lors du chargement de l'image: ">>
                        \o (IF is_url THEN download_filename(img_path)
                            ELSE basename(local_path)) \o <<"]">>
        max_width_px == cfg("document", "image_max_width").v * 378
        new_width == resized_width(answer.width * 10, max_width_px)
    IN  [raised |-> FALSE,
         units |->
           IF ~answer.found
           THEN IF is_url
                THEN <<Placeholder(<<"[Image externe non telechargee: ">> \o img_path \o <<"]">>)>>
                ELSE <<Placeholder(<<"[Image non trouvee: ">> \o basename(local_path) \o <<"]">>)>>
           ELSE IF ~answer.opens THEN <<Placeholder(error_text)>>
           ELSE IF ~answer.accepted
                THEN <<Paragraph("Normal", <<>>, "none", 0, TRUE), Placeholder(error_text)>>
           ELSE <<Picture(new_width,
                          scaled_height(answer.width * 10, answer.height * 10, new_width))>>
                \o (IF caption # <<>>
                    THEN <<Paragraph("Normal",
                                     <<Run(<<"Figure: ">> \o caption, "normal", <<"caption">>)>>,
                                     "caption", 0, FALSE)>>
                    ELSE <<>>)]

\* (the mutant first: the image test left out, so that an image directive
\* falls through to the paragraph branch)
branch_without_image(l, in_code) ==
    IF is_fence(l) THEN (IF in_code THEN "fence_close" ELSE "fence_open")
    ELSE IF in_code THEN "code"
    ELSE IF header_match(l).ok THEN "heading"
    ELSE IF list_match(l).ok THEN "list"
    ELSE IF is_table_line(l) THEN "table"
    ELSE IF strip(l) = <<>> THEN "blank"
    ELSE "paragraph"

\* Which branch of the line loop takes the line (lines 803-1017).
branch(l, in_code) ==
    IF is_fence(l) THEN (IF in_code THEN "fence_close" ELSE "fence_open")
    ELSE IF in_code THEN "code"
    ELSE IF header_match(l).ok THEN "heading"
    ELSE IF list_match(l).ok THEN "list"
    ELSE IF is_table_line(l) THEN "table"
    ELSE IF img_match(l).ok THEN "image"
    ELSE IF strip(l) = <<>> THEN "blank"
    ELSE "paragraph"

\* No conversion under way.
DocIdle(at) ==
    /\ input_files = <<>>
    /\ pc = at
    /\ index = 0
    /\ lines = <<>>
    /\ i = 0
    /\ in_code_block = FALSE
    /\ code_language = <<>>
    /\ code_content = <<>>
    /\ chapter_title = <<>>
    /\ doc = NewDocument
    /\ output = <<>>
    /\ image_probe = NotAsked

----------------------------------------------------------------------------
(* Inputs of the tokenizer specification.                                  *)

MaxLineLen == 4

TokChars == {"*", "_", BQ, "[", "]", "(", ")", "a"}

RECURSIVE SeqsUpTo(_, _)
SeqsUpTo(S, n) ==
    IF n = 0 THEN {<<>>}
    ELSE LET shorter == SeqsUpTo(S, n - 1)
         IN  shorter \cup {Append(s, c) : s \in {t \in shorter : Len(t) = n - 1}, c \in S}

\* Every non-empty text over TokChars of at most MaxLineLen characters.
ArbitraryLines == SeqsUpTo(TokChars, MaxLineLen) \ {<<>>}

\* Lines holding one well-formed span of each kind, in any order, with
\* plain text between them and optionally around them.
SpanKinds == {"bold", "italic", "code", "link"}

SpanText(kind, d) ==
    CASE kind = "bold"   -> <<d, d, "b", d, d>>
      [] kind = "italic" -> <<d, "i", d>>
      [] kind = "code"   -> <<BQ, "c", BQ>>
      [] kind = "link"   -> <<"[", "t", "]", "(", "u", ")">>

KindOrders ==
    {o \in [1..4 -> SpanKinds] : \A j, k \in 1..4 : j # k => o[j] # o[k]}

Separators == {<<" ">>, <<"x", " ">>}
Margins == {<<>>, <<"y">>}

WellFormedLine(o, db, di, s1, s2, s3, lead, trail) ==
    LET D(k) == IF k = "bold" THEN db ELSE di
    IN  lead \o SpanText(o[1], D(o[1])) \o s1 \o SpanText(o[2], D(o[2])) \o s2
             \o SpanText(o[3], D(o[3])) \o s3 \o SpanText(o[4], D(o[4])) \o trail

WellFormedLines ==
    {WellFormedLine(o, db, di, s1, s2, s3, lead, trail) :
        o \in KindOrders, db \in {"*", "_"}, di \in {"*", "_"},
        s1 \in Separators, s2 \in Separators, s3 \in Separators,
        lead \in Margins, trail \in Margins}

----------------------------------------------------------------------------
(* The tokenizer as a state machine: one action per pass of the loop.      *)

InitTok ==
    /\ line \in ArbitraryLines \cup WellFormedLines
    /\ remaining_text = line
    /\ formatted_runs = <<>>
    /\ tok_pc = "loop"
    /\ CfgStart
    /\ DocIdle("idle")

\* A pass in which some pattern matches (lines 1039-1059).
TokMatch ==
    /\ tok_pc = "loop"
    /\ remaining_text # <<>>
    /\ valid_matches(remaining_text) # <<>>
    /\ LET r == tokenize_step(remaining_text, formatted_runs)
       IN  /\ remaining_text' = r.rem
           /\ formatted_runs' = r.runs
    /\ UNCHANGED <<line, tok_pc, cfgVars, docVars>>

\* A pass in which no pattern matches: the rest is appended, then break
\* (lines 1060-1063).
TokRemainder ==
    /\ tok_pc = "loop"
    /\ remaining_text # <<>>
    /\ valid_matches(remaining_text) = <<>>
    /\ formatted_runs' = tokenize_step(remaining_text, formatted_runs).runs
    /\ tok_pc' = "done"
    /\ UNCHANGED <<line, remaining_text, cfgVars, docVars>>

\* The loop condition fails: remaining_text is empty (line 1024).
TokExit ==
    /\ tok_pc = "loop"
    /\ remaining_text = <<>>
    /\ tok_pc' = "done"
    /\ UNCHANGED <<line, remaining_text, formatted_runs, cfgVars, docVars>>

NextTok == TokMatch \/ TokRemainder \/ TokExit

SpecTok == InitTok /\ [][NextTok]_vars

----------------------------------------------------------------------------
(* Inputs of the configuration specification: override documents.          *)

\* How many places an override document sets.
MaxOverrideEdits == 1

\* The places an override writes to, each with the node written there.
OverrideEdits ==
    { << <<"styles", "h1", "font_size">>,      Leaf(20) >>,
      << <<"styles", "h1", "color", "r">>,     Leaf(255) >>,
      << <<"styles", "h1", "underline">>,      Leaf("True") >>,
      << <<"styles", "h1">>,                   Leaf("Heading 1") >>,
      << <<"styles", "h1">>,                   Dict(<<>>) >>,
      << <<"styles", "table", "font_size">>,   Leaf(9) >>,
      << <<"styles", "quote", "italic">>,      Leaf("True") >>,
      << <<"styles">>,                         Leaf("none") >>,
      << <<"document", "generate_toc">>,       Leaf("False") >>,
      << <<"document", "header", "enabled">>,  Leaf("False") >>,
      << <<"theme">>,                          Leaf("dark") >> }

IsPrefix(p, q) == Len(p) <= Len(q) /\ SubSeq(q, 1, Len(p)) = p

\* Sets of edits one document can hold: no place lies at or under another.
EditSets ==
    {E \in SUBSET OverrideEdits :
        /\ Cardinality(E) <= MaxOverrideEdits
        /\ \A e1, e2 \in E : e1 # e2 => ~IsPrefix(e1[1], e2[1])}

\* The JSON object whose members are exactly the edits of E.
RECURSIVE TreeOf(_)
TreeOf(E) ==
    [key \in {e[1][1] : e \in E} |->
        LET sub == {e \in E : e[1][1] = key}
        IN  IF \E e \in sub : Len(e[1]) = 1
            THEN (CHOOSE e \in sub : Len(e[1]) = 1)[2]
            ELSE Dict(TreeOf({<<Tail(e[1]), e[2]>> : e \in sub}))]

\* JSON documents that are no object: a list or a number.
NonObjects == {Leaf("[1, 2]"), Leaf("null")}

ConfigFiles ==
    {NoConfigFile, MissingFile, BadJsonFile}
        \cup {JsonFile(v) : v \in NonObjects}
        \cup {JsonFile(Dict(TreeOf(E))) : E \in EditSets}

----------------------------------------------------------------------------
(* The configuration loader as a state machine: load_config may be called  *)
(* any number of times in one process.                                     *)

InitCfg == TokIdle /\ CfgStart /\ DocIdle("idle")

LoadConfigCall(f) ==
    LET r == load_config(DEFAULT_CONFIG, f)
    IN  /\ config_file' = f
        /\ config' = r.config
        /\ DEFAULT_CONFIG' = r.default
        /\ warned' = r.warned

\* No file to read: no argument, or the path does not exist (line 161).
LoadDefaults ==
    \E f \in ConfigFiles :
        /\ ~(f.given /\ f.exists)
        /\ LoadConfigCall(f)
        /\ UNCHANGED <<tokVars, docVars>>

\* The file is read and merged (lines 162-167).
LoadMerged ==
    \E f \in ConfigFiles :
        /\ load_merges(f)
        /\ LoadConfigCall(f)
        /\ UNCHANGED <<tokVars, docVars>>

\* The try block raises and the handler prints (lines 169-171).
LoadFailed ==
    \E f \in ConfigFiles :
        /\ f.given /\ f.exists /\ load_raises(f)
        /\ LoadConfigCall(f)
        /\ UNCHANGED <<tokVars, docVars>>

NextCfg == LoadDefaults \/ LoadMerged \/ LoadFailed

SpecCfg == InitCfg /\ [][NextCfg]_vars

----------------------------------------------------------------------------
(* Inputs of the conversion: markdown files made of a few lines, one for   *)
(* each branch of the line loop.                                           *)

\* How many lines the input files of one conversion hold together (a file
\* that cannot be read counts as one).
MaxTotalLines == 3

LinePool ==
    { <<BQ, BQ, BQ>>,
      <<BQ, BQ, BQ, "p">>,
      <<"#", " ", "A">>,
      <<"|", "a", "|", "b", "|">>,
      <<"|", "c", "|">>,
      <<"-", " ", "b">>,
      <<"!", "[", "c", "]", "(", "m", ")">>,
      <<"!", "[", "]", "(">> \o Http \o <<"e", ")">>,
      <<>>,
      <<"t">> }

\* The lines of the files after the first: a code fence, a heading, text.
LaterLinePool == { <<BQ, BQ, BQ>>, <<"#", " ", "A">>, <<"t">> }

FilePaths == << <<"d", "/", "a">>, <<"d", "/", "b">> >>

\* A markdown file: its path, whether open() succeeds, and its content as
\* content.split('\n') cuts it, which is never an empty list.
File(path, readable, file_lines) ==
    [path |-> path, readable |-> readable, lines |-> file_lines]

Files(k, n) ==
    {File(FilePaths[k], TRUE, ls) :
        ls \in SeqsUpTo(IF k = 1 THEN LinePool ELSE LaterLinePool, n) \ {<<>>}}
        \cup {File(FilePaths[k], FALSE, <<>>)}

Weight(f) == IF f.readable THEN Len(f.lines) ELSE 1

InputFileLists ==
    {<<f>> : f \in Files(1, MaxTotalLines)}
        \cup UNION {{<<f, g>> : g \in Files(2, MaxTotalLines - Weight(f))} :
                       f \in Files(1, MaxTotalLines - 1)}

\* The configuration files a conversion is called with: none, or one that
\* turns the table of contents off.
DocConfigFiles ==
    {NoConfigFile,
     JsonFile(Dict([document |-> Dict([generate_toc |-> Leaf("False")])]))}

----------------------------------------------------------------------------
(* convert_markdown_to_docx as a state machine.                            *)

Init == TokIdle /\ CfgStart /\ DocIdle("start")

\* The call and line 676: the configuration is loaded.
Convert ==
    /\ pc = "start"
    /\ \E f \in DocConfigFiles : LoadConfigCall(f)
    /\ \E fs \in InputFileLists : input_files' = fs
    /\ pc' = "setup"
    /\ UNCHANGED <<tokVars, index, lines, i, codeVars, chapter_title, doc, output,
                   image_probe>>

\* Lines 706-735: the heading, the field paragraph and the page break of the
\* table of contents.
toc_units ==
    <<Heading(<<cfg("document", "toc_title").v>>, 1, "toc_heading"), TocField, PageBreak>>

\* Lines 679-737: the document is created and, if asked for, the table of
\* contents written into its first section.
Setup ==
    /\ pc = "setup"
    /\ doc' = IF generate_toc
              THEN add_units(IF header_enabled \/ footer_enabled
                             THEN add_header_footer(NewDocument, 1,
                                                    <<cfg("document", "toc_title").v>>)
                             ELSE NewDocument,
                             toc_units)
              ELSE NewDocument
    /\ pc' = "file"
    /\ UNCHANGED <<tokVars, cfgVars, input_files, index, lines, i, codeVars,
                   chapter_title, output, image_probe>>

\* (the mutant first: the code-block state of lines 795-797 is not reset)
OpenFile_keeps_state ==
    /\ pc = "file"
    /\ index < Len(input_files)
    /\ input_files[index + 1].readable
    /\ LET input_file == input_files[index + 1]
           title == extract_chapter_title(input_file.lines)
           file_name == basename(input_file.path)
           d1 == IF index > 0 \/ generate_toc
                 THEN add_section(IF truthy(cfg("document", "page_break_between_files"))
                                  THEN add_units(doc, <<PageBreak>>)
                                  ELSE doc)
                 ELSE doc
           section == Len(d1.headers)
           d2 == IF header_enabled \/ footer_enabled
                 THEN add_header_footer(d1, section, title)
                 ELSE d1
           d3 == IF truthy(cfg("document", "add_file_headers"))
                 THEN add_units(d2, <<Heading(<<"Fichier: ">> \o file_name, 1, "h1")>>)
                 ELSE d2
       IN  /\ chapter_title' = title
           /\ doc' = d3
           /\ lines' = input_file.lines
    /\ i' = 0
    /\ pc' = "lines"
    /\ UNCHANGED <<tokVars, cfgVars, input_files, index, output, image_probe,
                   codeVars>>

\* Lines 740-797: the next file is read, its section and header set up, and
\* the line loop initialised.
OpenFile ==
    /\ pc = "file"
    /\ index < Len(input_files)
    /\ input_files[index + 1].readable
    /\ LET input_file == input_files[index + 1]
           title == extract_chapter_title(input_file.lines)
           file_name == basename(input_file.path)
           d1 == IF index > 0 \/ generate_toc
                 THEN add_section(IF truthy(cfg("document", "page_break_between_files"))
                                  THEN add_units(doc, <<PageBreak>>)
                                  ELSE doc)
                 ELSE doc
           section == Len(d1.headers)
           d2 == IF header_enabled \/ footer_enabled
                 THEN add_header_footer(d1, section, title)
                 ELSE d1
           d3 == IF truthy(cfg("document", "add_file_headers"))
                 THEN add_units(d2, <<Heading(<<"Fichier: ">> \o file_name, 1, "h1")>>)
                 ELSE d2
       IN  /\ chapter_title' = title
           /\ doc' = d3
           /\ lines' = input_file.lines
    /\ i' = 0
    /\ in_code_block' = FALSE
    /\ code_language' = <<>>
    /\ code_content' = <<>>
    /\ pc' = "lines"
    /\ UNCHANGED <<tokVars, cfgVars, input_files, index, output, image_probe>>

\* (the mutant first: a file that cannot be read is skipped)
OpenFileFails_skipped ==
    /\ pc = "file"
    /\ index < Len(input_files)
    /\ ~input_files[index + 1].readable
    /\ index' = index + 1
    /\ UNCHANGED <<tokVars, cfgVars, input_files, pc, lines, i, codeVars,
                   chapter_title, doc, output, image_probe>>

\* Line 742: open() raises, and nothing catches it.
OpenFileFails ==
    /\ pc = "file"
    /\ index < Len(input_files)
    /\ ~input_files[index + 1].readable
    /\ pc' = "raised"
    /\ UNCHANGED <<tokVars, cfgVars, input_files, index, lines, i, codeVars,
                   chapter_title, doc, output, image_probe>>

\* The line loop is at a line that branch sends to b.
AtLine(b) ==
    /\ pc = "lines"
    /\ i < Len(lines)
    /\ branch(lines[i + 1], in_code_block) = b

\* What a step of the line loop that handles one line leaves alone.
LineFrame == UNCHANGED <<tokVars, cfgVars, input_files, pc, index, lines,
                         chapter_title, output>>

\* Lines 804-809.
FenceOpen ==
    /\ AtLine("fence_open")
    /\ in_code_block' = TRUE
    /\ code_language' = strip(Drop(strip(lines[i + 1]), 3))
    /\ code_content' = <<>>
    /\ i' = i + 1
    /\ LineFrame
    /\ UNCHANGED <<doc, image_probe>>

\* Lines 810-829.
FenceClose ==
    /\ AtLine("fence_close")
    /\ in_code_block' = FALSE
    /\ doc' = add_units(doc, code_block_units(code_language, code_content))
    /\ i' = i + 1
    /\ LineFrame
    /\ UNCHANGED <<code_language, code_content, image_probe>>

\* Lines 833-837.
CodeLine ==
    /\ AtLine("code")
    /\ code_content' = Append(code_content, lines[i + 1])
    /\ i' = i + 1
    /\ LineFrame
    /\ UNCHANGED <<in_code_block, code_language, doc, image_probe>>

\* Lines 840-854.
HeadingLine ==
    /\ AtLine("heading")
    /\ doc' = add_units(doc, heading_units(header_match(lines[i + 1])))
    /\ i' = i + 1
    /\ LineFrame
    /\ UNCHANGED <<codeVars, image_probe>>

\* Lines 857-943.
ListLine ==
    /\ AtLine("list")
    /\ doc' = add_units(doc, list_units(list_match(lines[i + 1])))
    /\ i' = i + 1
    /\ LineFrame
    /\ UNCHANGED <<codeVars, image_probe>>

\* Lines 946-998: the whole run of table lines is collected, and the table
\* written if the run has three lines or more.
TableRun ==
    /\ AtLine("table")
    /\ LET k == table_run_length(lines, i)
           table_lines == SubSeq(lines, i + 1, i + k)
       IN  /\ doc' = add_units(doc, table_units(table_lines))
           /\ i' = i + k
    /\ LineFrame
    /\ UNCHANGED <<codeVars, image_probe>>

\* Lines 1001-1007, with add_image_to_doc, the environment answering with
\* one of answers.
ImageLineWith(answers) ==
    /\ AtLine("image")
    /\ \E answer \in answers :
         LET m == img_match(lines[i + 1])
             base_path == dirname(abspath(input_files[index + 1].path))
             r == add_image_to_doc(m.path, base_path, m.alt, answer)
         IN  /\ image_probe' = answer
             /\ IF r.raised
                THEN /\ pc' = "raised"
                     /\ UNCHANGED <<doc, i>>
                ELSE /\ pc' = pc
                     /\ doc' = add_units(doc, r.units)
                     /\ i' = i + 1
    /\ UNCHANGED <<tokVars, cfgVars, input_files, index, lines, chapter_title,
                   output, codeVars>>

ImageLine == ImageLineWith(ImageAnswers)

\* Lines 1011-1014.
BlankLine ==
    /\ AtLine("blank")
    /\ doc' = add_units(doc, blank_units)
    /\ i' = i + 1
    /\ LineFrame
    /\ UNCHANGED <<codeVars, image_probe>>

\* Lines 1017-1084.
ParagraphLine ==
    /\ AtLine("paragraph")
    /\ doc' = add_units(doc, paragraph_units(lines[i + 1]))
    /\ i' = i + 1
    /\ LineFrame
    /\ UNCHANGED <<codeVars, image_probe>>

\* Line 799 fails: the file is done, and the file loop goes on.  Nothing is
\* done about a code block that is still open.
EndOfFile ==
    /\ pc = "lines"
    /\ i = Len(lines)
    /\ index' = index + 1
    /\ pc' = "file"
    /\ UNCHANGED <<tokVars, cfgVars, input_files, lines, i, codeVars,
                   chapter_title, doc, output, image_probe>>

\* Line 1087: doc.save writes the document.
SaveOk ==
    /\ pc = "file"
    /\ index = Len(input_files)
    /\ output' = Append(output, doc)
    /\ pc' = "done"
    /\ UNCHANGED <<tokVars, cfgVars, input_files, index, lines, i, codeVars,
                   chapter_title, doc, image_probe>>

\* Line 1087: doc.save raises (the output path cannot be written).
SaveFails ==
    /\ pc = "file"
    /\ index = Len(input_files)
    /\ pc' = "raised"
    /\ UNCHANGED <<tokVars, cfgVars, input_files, index, lines, i, codeVars,
                   chapter_title, doc, output, image_probe>>

Next ==
    \/ Convert
    \/ Setup
    \/ OpenFile
    \/ OpenFileFails
    \/ FenceOpen
    \/ FenceClose
    \/ CodeLine
    \/ HeadingLine
    \/ ListLine
    \/ TableRun
    \/ ImageLine
    \/ BlankLine
    \/ ParagraphLine
    \/ EndOfFile
    \/ SaveOk
    \/ SaveFails

Spec == Init /\ [][Next]_vars

----------------------------------------------------------------------------
(* The conversion of one file, over many more lines than Spec has: every   *)
(* short text, list items of every marker and indentation, and table rows  *)
(* with empty and padded cells.                                            *)

\* The longest of the short texts.
MaxBlockLen == 3

\* The deepest indentation of a list item, in characters.
MaxIndent == 3

\* The most cells a table row is written with.
MaxFields == 2

BlockChars == {" ", "#", "-", "1", ".", "|", "!", BQ, "a"}

ShortLines == SeqsUpTo(BlockChars, MaxBlockLen)

Spaces(n) == [k \in 1..n |-> " "]

ListMarkers == {<<"*">>, <<"-">>, <<"+">>, <<"1", ".">>, <<"1", "2", ".">>}

ListLines ==
    {Spaces(n) \o marker \o sep \o <<"b">> :
        n \in 0..MaxIndent, marker \in ListMarkers, sep \in {<<" ">>, <<" ", " ">>}}

CellTexts == {<<>>, <<"a">>, <<" ", "a">>}

\* A table row as it is written: a pipe, then each cell followed by a pipe,
\* with whitespace before and after the row.
TableLineOf(fields, lead, trail) ==
    lead \o <<"|">> \o Flatten([k \in 1..Len(fields) |-> fields[k] \o <<"|">>]) \o trail

TableLines ==
    {TableLineOf(fields, lead, trail) :
        fields \in SeqsUpTo(CellTexts, MaxFields) \ {<<>>},
        lead \in {<<>>, <<" ">>}, trail \in {<<>>, <<" ">>}}

SeparatorLine == <<"|", "-", "|">>

OneFile(file_lines) == <<File(FilePaths[1], TRUE, file_lines)>>

\* The call and line 676, without a configuration file and with one file:
\* a single line, two list items, a table of three lines, a code fence and
\* a line after it, or a file that cannot be read.
ConvertLines ==
    /\ pc = "start"
    /\ LoadConfigCall(NoConfigFile)
    /\ \/ \E l \in ShortLines \cup ListLines \cup LinePool :
            input_files' = OneFile(<<l>>)
       \/ \E l1 \in ListLines, l2 \in ListLines :
            input_files' = OneFile(<<l1, l2>>)
       \/ \E h \in TableLines, d \in TableLines :
            input_files' = OneFile(<<h, SeparatorLine, d>>)
       \/ \E l \in LinePool :
            input_files' = OneFile(<<(<<BQ, BQ, BQ>>), l>>)
       \/ input_files' = <<File(FilePaths[1], FALSE, <<>>)>>
    /\ pc' = "setup"
    /\ UNCHANGED <<tokVars, index, lines, i, codeVars, chapter_title, doc, output,
                   image_probe>>

NextLines ==
    \/ ConvertLines
    \/ Setup
    \/ OpenFile
    \/ OpenFileFails
    \/ FenceOpen
    \/ FenceClose
    \/ CodeLine
    \/ HeadingLine
    \/ ListLine
    \/ TableRun
    \/ ImageLine
    \/ BlankLine
    \/ ParagraphLine
    \/ EndOfFile
    \/ SaveOk
    \/ SaveFails

SpecLines == Init /\ [][NextLines]_vars

----------------------------------------------------------------------------
(* Image directives: one file holding one directive, under configurations  *)
(* with different maximum widths and images of sizes around them.          *)

\* image_max_width in centimetres: 378 and 567 pixels.
MaxWidthsCm == {10, 15}

ImageWidthsPx == {1, 378, 379, 566, 567, 568, 800}
ImageHeightsPx == {1, 300, 801}

SizedAnswers ==
    {ImageAnswer(TRUE, TRUE, w, h, TRUE) : w \in ImageWidthsPx, h \in ImageHeightsPx}
        \cup {ImageAnswer(TRUE, TRUE, 400, 300, FALSE),
              ImageAnswer(TRUE, FALSE, 0, 0, FALSE),
              ImageAnswer(FALSE, FALSE, 0, 0, FALSE)}

\* Directives with and without alt text, for a local file and for a URL.
ImageDirectives ==
    { <<"!", "[", "c", "]", "(", "m", ")">>,
      <<"!", "[", "]", "(", "m", ")">>,
      <<"!", "[", " ", "]", "(", "/", "m", ")">>,
      <<"!", "[", "]", "(">> \o Http \o <<"e", ")">> }

\* The call and line 676, with a configuration file that sets the maximum
\* width and one file of one image directive.
ConvertImages ==
    /\ pc = "start"
    /\ \E c \in MaxWidthsCm :
         LoadConfigCall(JsonFile(Dict([document |->
                          Dict([image_max_width |-> Leaf(c)])])))
    /\ \E l \in ImageDirectives : input_files' = OneFile(<<l>>)
    /\ pc' = "setup"
    /\ UNCHANGED <<tokVars, index, lines, i, codeVars, chapter_title, doc, output,
                   image_probe>>

ImageLineSized == ImageLineWith(SizedAnswers)

NextImages ==
    \/ ConvertImages
    \/ Setup
    \/ OpenFile
    \/ ImageLineSized
    \/ EndOfFile
    \/ SaveOk
    \/ SaveFails

SpecImages == Init /\ [][NextImages]_vars

----------------------------------------------------------------------------
(* The two loops together: the line loop of one file, with the while-loop  *)
(* of the paragraph handler (lines 1024-1063) taken pass by pass.          *)

\* Lines for the line loop that hold inline markup: a span and text after
\* it, a span that ends the line, two spans, text before a span.
MarkupLines ==
    { <<"*", "a", "*", "b">>,
      <<BQ, "a", BQ>>,
      <<BQ, BQ, "*", "a", "*">>,
      <<"a", "[", "b", "]", "(", "c", ")">> }

LoopLinePool ==
    MarkupLines \cup
    { <<"|", "c", "|">>,
      <<BQ, BQ, BQ>>,
      <<"#", " ", "A">>,
      <<"-", " ", "b">>,
      <<"!", "[", "c", "]", "(", "m", ")">>,
      <<>>,
      <<"t">> }

\* A run of k table lines.
TableLinesRun(k) == [n \in 1..k |-> <<"|", "c", "|">>]

\* The longest one-line input of the tokenizer that the line loop is given.
MaxLoopLineLen == MaxLineLen - 1

\* The call and line 676, without a configuration file and with one file:
\* two lines of LoopLinePool, a run of up to MaxTotalLines table lines,
\* alone or before a line of text, one line over the characters of the
\* tokenizer inputs, or a file that cannot be read.
ConvertLoops ==
    /\ pc = "start"
    /\ LoadConfigCall(NoConfigFile)
    /\ \/ \E l1 \in LoopLinePool, l2 \in LoopLinePool :
            input_files' = OneFile(<<l1, l2>>)
       \/ \E k \in 1..MaxTotalLines, after \in {<<>>} \cup {<<l>> : l \in MarkupLines} :
            input_files' = OneFile(TableLinesRun(k) \o after)
       \/ \E l \in SeqsUpTo(TokChars, MaxLoopLineLen) :
            input_files' = OneFile(<<l>>)
       \/ input_files' = <<File(FilePaths[1], FALSE, <<>>)>>
    /\ pc' = "setup"
    /\ UNCHANGED <<tokVars, index, lines, i, codeVars, chapter_title, doc, output,
                   image_probe>>

\* Lines 1017-1021: a paragraph is added and the tokenizer set up.
ParagraphStart ==
    /\ AtLine("paragraph")
    /\ tok_pc = "idle"
    /\ line' = lines[i + 1]
    /\ remaining_text' = lines[i + 1]
    /\ formatted_runs' = <<>>
    /\ tok_pc' = "loop"
    /\ UNCHANGED <<cfgVars, docVars>>

\* Lines 1065-1084: the runs are added to the paragraph and styled, and the
\* line loop moves on.
ParagraphEnd ==
    /\ AtLine("paragraph")
    /\ tok_pc = "done"
    /\ doc' = add_units(doc,
                <<Paragraph("Normal",
                            styled_runs(formatted_runs, "normal", <<"normal">>),
                            "normal", 0, FALSE)>>)
    /\ i' = i + 1
    /\ tok_pc' = "idle"
    /\ UNCHANGED <<line, remaining_text, formatted_runs, cfgVars, input_files, pc,
                   index, lines, codeVars, chapter_title, output, image_probe>>

NextLoops ==
    \/ ConvertLoops
    \/ Setup
    \/ OpenFile
    \/ OpenFileFails
    \/ FenceOpen
    \/ FenceClose
    \/ CodeLine
    \/ HeadingLine
    \/ ListLine
    \/ TableRun
    \/ ImageLine
    \/ BlankLine
    \/ ParagraphStart
    \/ TokMatch
    \/ TokRemainder
    \/ TokExit
    \/ ParagraphEnd
    \/ EndOfFile
    \/ SaveOk
    \/ SaveFails

SpecLoops == Init /\ [][NextLoops]_vars

----------------------------------------------------------------------------
(* Claims about the conversion, checked under Spec.                        *)

\* The document doc.save wrote.
Written == output[1]

\* The positions of the code block paragraphs in a document body.
CodeBlocksIn(body) ==
    {k \in DOMAIN body :
        /\ body[k].kind = "paragraph"
        /\ Len(body[k].runs) = 1
        /\ body[k].runs[1].applied = <<"code_block">>}

\* The positions of the fence lines of a file.
FencesOf(ls) == {k \in DOMAIN ls : is_fence(ls[k])}

\* A file whose last code fence is opened and never closed.
EndsInOpenFence(ls) == Cardinality(FencesOf(ls)) % 2 = 1

\* The code blocks a list of files calls for: one per closed pair of
\* fences, and one for a fence left open.
RECURSIVE CodeBlocksDue(_)
CodeBlocksDue(files) ==
    IF files = <<>> THEN 0
    ELSE (Cardinality(FencesOf(Head(files).lines)) + 1) \div 2 + CodeBlocksDue(Tail(files))

\* C1: when the conversion has written its output, every fence of every
\* input file has given one code block, a fence left open at the end of a
\* file included, and the block of such a fence holds all the lines after
\* its opening line.
C1_OpenFenceFlushed ==
    pc = "done" =>
        /\ Cardinality(CodeBlocksIn(Written.body)) = CodeBlocksDue(input_files)
        /\ \A f \in 1..Len(input_files) :
             LET ls == input_files[f].lines
             IN  EndsInOpenFence(ls) =>
                   \E k \in CodeBlocksIn(Written.body) :
                      Written.body[k].runs[1].text
                        = join(Drop(ls, Max(FencesOf(ls))), "\n")

\* The line loop is about to handle a run of table lines; TableRunLength is
\* how many lines the run has.
AtTableRun ==
    /\ pc = "lines"
    /\ i < Len(lines)
    /\ ~in_code_block
    /\ branch(lines[i + 1], FALSE) = "table"

TableRunLength ==
    Max({n \in 1..(Len(lines) - i) : \A j \in 1..n : is_table_line(lines[i + j])})

\* C2: a step of the line loop at a run of one or two table lines adds one
\* paragraph for each line it consumes, and nothing else.
C2_ShortRunFallsToParagraphs ==
    [][(AtTableRun /\ TableRunLength < 3) =>
          /\ i' > i
          /\ doc'.body = doc.body \o [j \in 1..(i' - i) |->
                                         paragraph_units(lines[i + j])[1]]]_vars

\* C3: a step of the line loop at a run of k >= 3 table lines consumes the
\* run and adds one table of k - 1 rows, the first holding the cells of the
\* first line and row r the cells of line r + 1, so that the second line is
\* in no row.
C3_LongRunIsOneTable ==
    [][(AtTableRun /\ TableRunLength >= 3) =>
          LET k == TableRunLength
              n == Len(doc.body)
          IN  /\ i' = i + k
              /\ Len(doc'.body) = n + 2
              /\ SubSeq(doc'.body, 1, n) = doc.body
              /\ doc'.body[n + 2] = EmptyParagraph
              /\ LET t == doc'.body[n + 1]
                     RowTexts(r) == [j \in 1..t.cols |-> t.cells[r][j].text]
                     Padded(c) == [j \in 1..t.cols |-> IF j <= Len(c) THEN c[j] ELSE <<>>]
                 IN  /\ t.kind = "table"
                     /\ t.rows = k - 1
                     /\ Len(t.cells) = k - 1
                     /\ t.cols = Len(table_cells(lines[i + 1]))
                     /\ RowTexts(1) = table_cells(lines[i + 1])
                     /\ \A r \in 2..(k - 1) :
                          RowTexts(r) = Padded(table_cells(lines[i + r + 1]))]_vars

\* A run of exactly three lines whose second line differs from the other
\* two has become a table of two rows.
C3_Witness ==
    /\ pc = "lines"
    /\ i = 3
    /\ lines[1] # lines[2]
    /\ lines[3] # lines[2]
    /\ \A j \in 1..3 : is_table_line(lines[j])
    /\ \E k \in DOMAIN doc.body : doc.body[k].kind = "table" /\ doc.body[k].rows = 2

\* The positions of the section breaks in a document body.
SectionBreaksIn(body) == {k \in DOMAIN body : body[k] = SectionBreak}

\* C8: with the table of contents on, the written document starts with the
\* table of contents, has one further section per input file, and the
\* header of the section of file k shows the chapter title of file k.
C8_EachChapterOwnHeader ==
    (pc = "done" /\ generate_toc) =>
        LET n == Len(input_files)
        IN  /\ Written.body[1] = toc_units[1]
            /\ Len(Written.headers) = n + 1
            /\ Cardinality(SectionBreaksIn(Written.body)) = n
            /\ \A k \in 1..n :
                 header_shown(Written, k + 1) = extract_chapter_title(input_files[k].lines)

\* The line loop is about to handle an image directive.
AtImage ==
    /\ pc = "lines"
    /\ i < Len(lines)
    /\ branch(lines[i + 1], in_code_block) = "image"

\* The one paragraph with the given text.
TextParagraph(text, unit) ==
    /\ unit.kind = "paragraph"
    /\ Len(unit.runs) = 1
    /\ unit.runs[1].text = text

\* C9: a step at an image directive goes on to the next line, whatever the
\* environment answers; when the source is not there it adds one paragraph,
\* naming the base name of a local source and the URL of a remote one; and
\* the conversion is left by an exception only where a file is opened or
\* the output saved.
C9_ImageFailureIsLocal ==
    [][/\ AtImage =>
            LET source == img_match(lines[i + 1]).path
                remote == startswith(source, Http) \/ startswith(source, Https)
                n == Len(doc.body)
            IN  /\ pc' = "lines"
                /\ i' = i + 1
                /\ SubSeq(doc'.body, 1, n) = doc.body
                /\ ~image_probe'.found =>
                     /\ Len(doc'.body) = n + 1
                     /\ TextParagraph(
                          IF remote
                          THEN <<"[Image externe non telechargee: ">> \o source \o <<"]">>
                          ELSE <<"[Image non trouvee: ">> \o basename(source) \o <<"]">>,
                          doc'.body[n + 1])
       /\ pc' = "raised" => pc = "file"]_vars

\* Both placeholders are in a written document, the local one before the
\* remote one, with a later chapter after them.
C9_Witness ==
    /\ pc = "done"
    /\ Len(input_files) = 2
    /\ \E a, b \in DOMAIN Written.body :
         /\ a < b
         /\ b < Len(Written.body)
         /\ TextParagraph(<<"[Image non trouvee: ", "m", "]">>, Written.body[a])
         /\ TextParagraph(<<"[Image externe non telechargee: ">> \o Http \o <<"e", "]">>,
                          Written.body[b])
         /\ \E c \in (b + 1)..Len(Written.body) : Written.body[c] = SectionBreak

\* The title of the first level-1 heading the line loop writes for a file
\* with these lines, or the default when it writes none.
RECURSIVE FirstHeadingTitle(_, _)
FirstHeadingTitle(ls, in_code) ==
    IF ls = <<>> THEN <<"Chapitre">>
    ELSE LET b == branch(Head(ls), in_code)
             m == header_match(Head(ls))
         IN  IF b = "fence_open" THEN FirstHeadingTitle(Tail(ls), TRUE)
             ELSE IF b = "fence_close" THEN FirstHeadingTitle(Tail(ls), FALSE)
             ELSE IF b = "heading" /\ m.level = 1 THEN strip(m.text)
             ELSE FirstHeadingTitle(Tail(ls), in_code)

\* C11: while the lines of a file are handled, the chapter title, and with
\* it the header of the file's section, is the text of the first level-1
\* heading the line loop writes for the file, or "Chapitre" when it writes
\* none; a heading line inside a code fence does not count.
C11_TitleIsFirstHeadingBlock ==
    pc = "lines" =>
        /\ chapter_title = FirstHeadingTitle(lines, FALSE)
        /\ header_enabled =>
             header_shown(doc, Len(doc.headers)) = FirstHeadingTitle(lines, FALSE)

\* C12: the output is written at most once and only when every input file
\* has been read and handled; at a file that cannot be read the conversion
\* is left by the exception, whatever was rendered before.
C12_UnreadableFileNoOutput ==
    [][/\ Len(output') <= 1
       /\ output' # <<>> =>
            /\ pc' = "done"
            /\ index' = Len(input_files')
            /\ \A k \in 1..Len(input_files') : input_files'[k].readable
       /\ output' # output => (output = <<>> /\ output' = <<doc>>)
       /\ (pc = "file" /\ index < Len(input_files) /\ ~input_files[index + 1].readable)
            => (pc' = "raised" /\ output' = <<>>)
       /\ pc = "raised" => pc' = "raised"]_vars

\* The second file cannot be read, the first has been rendered, and the
\* conversion has been left without output.
C12_Witness ==
    /\ pc = "raised"
    /\ Len(input_files) = 2
    /\ index = 1
    /\ ~input_files[2].readable
    /\ Len(doc.body) > Len(toc_units)
    /\ output = <<>>

\* C14: inside a code fence, a line that is not the bare fence marker is
\* added to the code content as it is, the fence stays open and nothing is
\* written to the document.
C14_OnlyBareFenceCloses ==
    [][(/\ pc = "lines"
        /\ i < Len(lines)
        /\ in_code_block
        /\ strip(lines[i + 1]) # <<BQ, BQ, BQ>>) =>
          /\ in_code_block'
          /\ code_content' = Append(code_content, lines[i + 1])
          /\ doc' = doc
          /\ i' = i + 1]_vars

\* The positions of the tables in a document body.
TablesIn(body) == {k \in DOMAIN body : body[k].kind = "table"}

\* C18: in every table of the document, the cells of the first row are bold
\* and shaded with the header colour, and every cell has the font name and
\* the font size of the table profile.
C18_TableCellStyles ==
    \A k \in TablesIn(doc.body) :
        LET t == doc.body[k]
        IN  /\ \A j \in 1..t.cols : t.cells[1][j].bold /\ t.cells[1][j].shaded
            /\ \A r \in 1..t.rows : \A j \in 1..t.cols :
                 /\ t.cells[r][j].font_name = cfg("styles", "table").m["font_name"].v
                 /\ t.cells[r][j].font_size = cfg("styles", "table").m["font_size"].v

----------------------------------------------------------------------------
(* Claims about single lines, checked under SpecLines.                     *)

\* The line loop is about to handle a line outside a code block.
AtNormalLine ==
    /\ pc = "lines"
    /\ i < Len(lines)
    /\ ~in_code_block

\* The step added k items at the end of the document.
Grew(k) ==
    /\ Len(doc'.body) = Len(doc.body) + k
    /\ SubSeq(doc'.body, 1, Len(doc.body)) = doc.body

\* The first item the step added.
Added == doc'.body[Len(doc.body) + 1]

\* The texts the image handler begins its replacement paragraphs with.
ImageNotices == {"[Image externe non telechargee: ", "[Image non trouvee: ",
                 "[Erreur lors du chargement de l'image: "}

IsImageNotice(unit) ==
    /\ unit.kind = "paragraph"
    /\ Len(unit.runs) = 1
    /\ unit.runs[1].text # <<>>
    /\ unit.runs[1].text[1] \in ImageNotices

\* The rules of the line loop in their order, 7 being the paragraph, and
\* whether rule k applies to the line l.
RuleApplies(k, l) ==
    CASE k = 1 -> startswith(strip(l), <<BQ, BQ, BQ>>)
      [] k = 2 -> header_match(l).ok
      [] k = 3 -> list_match(l).ok
      [] k = 4 -> strip(l) # <<>> /\ Head(strip(l)) = "|" /\ strip(l)[Len(strip(l))] = "|"
      [] k = 5 -> img_match(l).ok
      [] k = 6 -> strip(l) = <<>>
      [] k = 7 -> TRUE

FirstRule(l) == Min({k \in 1..7 : RuleApplies(k, l)})

\* The step did what rule k does with a line.
HandledAs(k) ==
    CASE k = 1 -> in_code_block' /\ doc' = doc /\ i' = i + 1
      [] k = 2 -> Grew(1) /\ Added.kind = "heading"
      [] k = 3 -> /\ Grew(1)
                  /\ Added.kind = "paragraph"
                  /\ Added.style \in {"List Bullet", "List Number"}
      [] k = 4 -> /\ ~in_code_block'
                  /\ \/ doc' = doc /\ i' > i
                     \/ Grew(2) /\ Added.kind = "table"
      [] k = 5 -> /\ Len(doc'.body) > Len(doc.body)
                  /\ \/ Added.kind = "picture"
                     \/ IsImageNotice(Added)
                     \/ Added.kind = "paragraph" /\ Added.centered
      [] k = 6 -> Grew(1) /\ Added = EmptyParagraph
      [] k = 7 -> /\ Grew(1)
                  /\ Added.kind = "paragraph"
                  /\ Added.style = "Normal"
                  /\ Added.profile = "normal"
                  /\ ~IsImageNotice(Added)

\* C16: outside a code block, a step of the line loop does with the line
\* what the first applicable rule does, in the order fence, heading, list
\* item, table run, image, blank, paragraph, and what no other rule does.
C16_FirstRuleWins ==
    [][AtNormalLine =>
          \A k \in 1..7 : HandledAs(k) <=> k = FirstRule(lines[i + 1])]_vars

\* An image directive, which the paragraph rule would take as well, has
\* been handled as an image.
C16_Witness ==
    /\ pc = "lines"
    /\ i = 1
    /\ lines = << <<"!", "[", "c", "]", "(", "m", ")">> >>
    /\ doc.body[Len(doc.body)].kind = "paragraph"
    /\ doc.body[Len(doc.body) - 1].kind = "picture"

\* The cells a table line is written with: the texts between the pipes of
\* the line without its surrounding whitespace, the first and the last pipe
\* enclosing them.
FieldsOf(l) ==
    LET t == strip(l)
        fields == split(SubSeq(t, 2, Len(t) - 1), "|")
    IN  [k \in 1..Len(fields) |-> strip(fields[k])]

\* C17: the table made from a run has as many columns as the first line of
\* the run is written with cells, its first row holds those cells, and each
\* further row holds the cells its line is written with.
C17_RowsHoldWrittenCells ==
    [][(/\ AtTableRun
        /\ TableRunLength >= 3
        /\ \A j \in 1..TableRunLength : Len(strip(lines[i + j])) >= 2) =>
          LET t == Added
              RowTexts(r) == [j \in 1..t.cols |-> t.cells[r][j].text]
              Padded(c) == [j \in 1..t.cols |-> IF j <= Len(c) THEN c[j] ELSE <<>>]
          IN  /\ Grew(2)
              /\ t.kind = "table"
              /\ t.cols = Len(FieldsOf(lines[i + 1]))
              /\ RowTexts(1) = FieldsOf(lines[i + 1])
              /\ \A r \in 2..t.rows :
                   /\ Len(table_cells(lines[i + r + 1])) = Len(FieldsOf(lines[i + r + 1]))
                   /\ RowTexts(r) = Padded(FieldsOf(lines[i + r + 1]))]_vars

\* C19: a step at a list item adds one list paragraph: a bullet for the
\* markers *, - and +, a number otherwise, indented (level + 1) times the
\* left_indent of the list_item profile, the level being the count of
\* leading whitespace characters divided by two; nothing but the line
\* itself enters into it.
C19_ListItemLevelAndKind ==
    [][(AtNormalLine /\ FirstRule(lines[i + 1]) = 3) =>
          LET l == lines[i + 1]
              leading == LeadingCount(l, IsSpace)
          IN  /\ Grew(1)
              /\ i' = i + 1
              /\ Added.kind = "paragraph"
              /\ Added.style = IF l[leading + 1] \in {"*", "-", "+"}
                               THEN "List Bullet" ELSE "List Number"
              /\ Added.indent = (leading \div 2) + 1]_vars

\* A numbered item of level 1 has been written right after a bullet of
\* level 0.
C19_Witness ==
    /\ pc = "lines"
    /\ i = 2
    /\ Len(doc.body) >= 2
    /\ LET first == doc.body[Len(doc.body) - 1]
           second == doc.body[Len(doc.body)]
       IN  /\ first.kind = "paragraph" /\ first.style = "List Bullet" /\ first.indent = 1
           /\ second.kind = "paragraph" /\ second.style = "List Number"
           /\ second.indent = 2

----------------------------------------------------------------------------
(* Claims about the configuration loader, checked under SpecCfg.           *)

\* The dictionary m with the node at path p set to node, every dictionary
\* on the way kept, every other key untouched.
RECURSIVE SetAt(_, _, _)
SetAt(m, p, node) ==
    [key \in DOMAIN m \cup {Head(p)} |->
        IF key # Head(p) THEN m[key]
        ELSE IF Len(p) = 1 THEN node
        ELSE Dict(SetAt(m[key].m, Tail(p), node))]

\* Path p leads through dictionaries of m down to the one holding its last key.
RECURSIVE ParentIsDict(_, _)
ParentIsDict(m, p) ==
    \/ Len(p) = 1
    \/ /\ Head(p) \in DOMAIN m
       /\ m[Head(p)].t = "dict"
       /\ ParentIsDict(m[Head(p)].m, Tail(p))

\* C5: a load_config call whose override is the empty object returns a
\* configuration equal to the defaults it merged onto, and a call whose
\* override sets one leaf inside a nested dictionary of the defaults
\* returns the defaults with that one leaf changed: every sibling field
\* and every other profile is as in the defaults.
C5_MergeLaws ==
    [][ /\ (load_merges(config_file') /\ config_file'.json.m = <<>>)
            => (config' = DEFAULT_CONFIG /\ DEFAULT_CONFIG' = DEFAULT_CONFIG)
        /\ \A e \in OverrideEdits :
              ( /\ config_file' = JsonFile(Dict(TreeOf({e})))
                /\ e[2].t = "leaf"
                /\ Len(e[1]) >= 2
                /\ ParentIsDict(DEFAULT_CONFIG, e[1]) )
              => config' = SetAt(DEFAULT_CONFIG, e[1], e[2])
      ]_vars

\* The call with the override {"styles": {"h1": {"font_size": 20}}} has
\* returned: the field is set and its sibling "bold" is still there.
C5_Witness ==
    /\ config_file =
          JsonFile(Dict(TreeOf({<< <<"styles", "h1", "font_size">>, Leaf(20) >>})))
    /\ config["styles"].m["h1"].m["font_size"] = Leaf(20)
    /\ config["styles"].m["h1"].m["bold"] = Leaf("True")
    /\ config["styles"].m["h2"].m["font_size"] = Leaf(16)

\* An override that is given but missing, unparseable or no object.
BadOverride(f) == f.given /\ (~f.exists \/ load_raises(f))

\* C10: a load_config call with a bad override (missing file, parse
\* failure, not an object) prints the warning and returns exactly the
\* built-in defaults.
C10_BadOverrideWarnsAndDefaults ==
    [][ BadOverride(config_file')
            => (warned' /\ config' = BuiltinDefaults) ]_vars

\* C13: the module dictionary DEFAULT_CONFIG has its built-in value after
\* any sequence of load_config calls.
C13_DefaultsNeverMutated == DEFAULT_CONFIG = BuiltinDefaults

\* The style roles the renderer reads.
StyleRoles == {"h1", "h2", "h3", "h4", "normal", "code", "code_block",
               "list_item", "table", "caption", "toc_heading"}

\* The override document json says something about styles.role.field.
Mentions(json, role, field) ==
    /\ json.t = "dict"
    /\ "styles" \in DOMAIN json.m
    /\ json.m["styles"].t = "dict" =>
         /\ role \in DOMAIN json.m["styles"].m
         /\ json.m["styles"].m[role].t = "dict" =>
              field \in DOMAIN json.m["styles"].m[role].m

\* C15: after a load_config call that merged an override, every style role
\* is a profile mapping that has every field of the built-in profile, with
\* the built-in value where the override says nothing about the field.
C15_ProfilesKeepDefaults ==
    (config # <<>> /\ load_merges(config_file)) =>
        /\ config["styles"].t = "dict"
        /\ \A role \in StyleRoles :
             /\ role \in DOMAIN config["styles"].m
             /\ config["styles"].m[role].t = "dict"
             /\ \A field \in DOMAIN BuiltinDefaults["styles"].m[role].m :
                  /\ field \in DOMAIN config["styles"].m[role].m
                  /\ ~Mentions(config_file.json, role, field) =>
                       config["styles"].m[role].m[field]
                         = BuiltinDefaults["styles"].m[role].m[field]

----------------------------------------------------------------------------
(* Claims about the tokenizer, checked under SpecTok.                      *)

RunTexts(runs) == Flatten([k \in 1..Len(runs) |-> runs[k].text])

\* A line with its markup removed: the delimiter characters dropped, and
\* everything from "(" to the next ")" dropped with them.
RECURSIVE StripMarkup(_, _)
StripMarkup(s, in_url) ==
    IF s = <<>> THEN <<>>
    ELSE LET c == Head(s)
         IN  IF in_url THEN StripMarkup(Tail(s), c # ")")
             ELSE IF c = "(" THEN StripMarkup(Tail(s), TRUE)
             ELSE IF c \in {"*", "_", BQ, "[", "]"} THEN StripMarkup(Tail(s), FALSE)
             ELSE <<c>> \o StripMarkup(Tail(s), FALSE)

\* C4: for a line with one well-formed span of each kind, in any order and
\* separated by plain text, the texts of the emitted spans, concatenated in
\* order, are the line with its delimiters and the link's (url) removed.
C4_RoundTrip ==
    (tok_pc = "done" /\ line \in WellFormedLines)
        => RunTexts(formatted_runs) = StripMarkup(line, FALSE)

\* A finished well-formed line on which all four typed spans were emitted.
C4_Witness ==
    /\ tok_pc = "done"
    /\ line \in WellFormedLines
    /\ \A kind \in SpanKinds :
          \E k \in 1..Len(formatted_runs) : formatted_runs[k].fmt = kind
    /\ \E k \in 1..Len(formatted_runs) : formatted_runs[k].fmt = "normal"

\* C6: in a pass where some pattern matches, the emitted typed span is that
\* of the pattern whose match starts earliest (on equal starts the earlier
\* of bold, italic, code, link); the text before it, if any, is emitted as a
\* plain span first, and the loop goes on after the end of the match.
C6_LeftmostMatchWins ==
    [][ (tok_pc = "loop" /\ remaining_text # <<>>
            /\ \E j \in 1..4 : matches(remaining_text)[j].m.ok)
        => \E k \in 1..4 :
             LET ms == matches(remaining_text)
                 e == ms[k]
             IN  /\ e.m.ok
                 /\ \A j \in 1..4 : ms[j].m.ok =>
                        \/ e.m.start < ms[j].m.start
                        \/ (e.m.start = ms[j].m.start /\ k <= j)
                 /\ formatted_runs' =
                        formatted_runs
                        \o (IF e.m.start > 0
                            THEN <<[fmt |-> "normal",
                                    text |-> SubSeq(remaining_text, 1, e.m.start)]>>
                            ELSE <<>>)
                        \o <<[fmt |-> e.t, text |-> e.m.text]>>
                 /\ remaining_text' = Drop(remaining_text, e.m.end)
      ]_vars

\* A link, the last pattern of the list, was emitted while a bold match,
\* the first pattern of the list, lies further right in the text.
C6_Witness ==
    /\ tok_pc = "loop"
    /\ formatted_runs # <<>>
    /\ formatted_runs[Len(formatted_runs)].fmt = "link"
    /\ bold_match(remaining_text).ok

\* C7: no emitted span, plain or typed, has empty text.
C7_NoEmptySpan ==
    \A k \in 1..Len(formatted_runs) : formatted_runs[k].text # <<>>
\* C20: a pass that emits a link span gives it the text and the target of
\* the link it matched.
C20_LinkSpanCarriesTarget ==
    [][(/\ tok_pc = "loop"
        /\ remaining_text # <<>>
        /\ valid_matches(remaining_text) # <<>>
        /\ SortByStart(valid_matches(remaining_text))[1].t = "link") =>
          LET m == link_match(remaining_text)
              span == formatted_runs'[Len(formatted_runs')]
          IN  /\ span.fmt = "link"
              /\ span.text = m.text
              /\ "target" \in DOMAIN span
              /\ span.target = m.target]_vars


----------------------------------------------------------------------------
(* Claims about the two loops, checked under SpecLoops.                    *)

\* One step taken inside the line loop.  With the tokenizer idle, the step
\* is a whole iteration that moves the cursor forward and stays within the
\* file, an exception that leaves the loop, or the start of the tokenizer
\* on the current line.  A pass of the tokenizer shortens remaining_text
\* and goes on, or ends the loop: a remainder that is not empty is one no
\* pattern matches, and it is appended as a normal run.  After the
\* tokenizer the iteration ends one line further.
LoopStep ==
    (pc = "lines" /\ i < Len(lines)) =>
        CASE tok_pc = "idle" ->
               \/ /\ i' > i
                  /\ i' <= Len(lines)
                  /\ pc' = "lines"
                  /\ tok_pc' = "idle"
               \/ pc' = "raised"
               \/ /\ tok_pc' = "loop"
                  /\ i' = i
                  /\ remaining_text' = lines[i + 1]
          [] tok_pc = "loop" ->
               /\ i' = i
               /\ \/ /\ tok_pc' = "loop"
                     /\ Len(remaining_text') < Len(remaining_text)
                  \/ /\ tok_pc' = "done"
                     /\ remaining_text # <<>> => valid_matches(remaining_text) = <<>>
                     /\ formatted_runs' =
                          IF remaining_text = <<>> THEN formatted_runs
                          ELSE Append(formatted_runs,
                                      [fmt |-> "normal", text |-> remaining_text])
          [] tok_pc = "done" ->
               /\ i' = i + 1
               /\ tok_pc' = "idle"

\* The run that the table branch collects holds the line it starts at.
CursorMoves == AtLine("table") => table_run_length(lines, i) >= 1

\* C21: every iteration of the line loop moves the cursor forward (a table
\* run by at least one line), and every pass of the tokenizer shortens the
\* remaining text or ends the loop, the remainder that matches nothing
\* being emitted as a normal run.  Len(lines) - i, the position in the
\* iteration and Len(remaining_text) then decrease in this order on every
\* step, so that the loops of a finite file end.
C21_LoopsTerminate == []CursorMoves /\ [][LoopStep]_vars

\* A run of three table lines was consumed in one iteration, and on the
\* line after it the tokenizer has ended with a span and a remainder.
C21_Witness ==
    /\ pc = "lines"
    /\ i = 3
    /\ \A k \in 1..3 : is_table_line(lines[k])
    /\ tok_pc = "done"
    /\ Len(formatted_runs) >= 2
    /\ remaining_text # <<>>
    /\ formatted_runs[Len(formatted_runs)] = [fmt |-> "normal", text |-> remaining_text]


----------------------------------------------------------------------------
(* Claims about what crosses from one file to the next, checked under Spec. *)

\* What the line loop writes for the lines of one file from index from on,
\* started in the given code-block state: the loop of lines 799-1084 as a
\* function of the lines and the configuration, for files without images.
RECURSIVE BlocksOf(_, _, _, _, _)
BlocksOf(ls, from, in_code, language, content) ==
    IF from >= Len(ls) THEN <<>>
    ELSE LET l == ls[from + 1]
             b == branch(l, in_code)
         IN  CASE b = "fence_open" ->
                    BlocksOf(ls, from + 1, TRUE, strip(Drop(strip(l), 3)), <<>>)
               [] b = "fence_close" ->
                    code_block_units(language, content)
                        \o BlocksOf(ls, from + 1, FALSE, language, content)
               [] b = "code" ->
                    BlocksOf(ls, from + 1, TRUE, language, Append(content, l))
               [] b = "heading" ->
                    heading_units(header_match(l))
                        \o BlocksOf(ls, from + 1, in_code, language, content)
               [] b = "list" ->
                    list_units(list_match(l))
                        \o BlocksOf(ls, from + 1, in_code, language, content)
               [] b = "table" ->
                    LET k == table_run_length(ls, from)
                    IN  table_units(SubSeq(ls, from + 1, from + k))
                            \o BlocksOf(ls, from + k, in_code, language, content)
               [] b = "blank" ->
                    blank_units \o BlocksOf(ls, from + 1, in_code, language, content)
               [] b = "paragraph" ->
                    paragraph_units(l)
                        \o BlocksOf(ls, from + 1, in_code, language, content)
               [] OTHER -> BlocksOf(ls, from + 1, in_code, language, content)

\* The blocks of a file read on its own.
OwnBlocks(ls) == BlocksOf(ls, 0, FALSE, <<>>, <<>>)

NoImageLine(ls) == \A k \in DOMAIN ls : ~img_match(ls[k]).ok

\* The last n units of the body.
BodyTail(n) == SubSeq(doc.body, Len(doc.body) - n + 1, Len(doc.body))

\* C22: the line loop of every file starts outside a code block with no
\* code lines collected, and what it has written when the file is done is
\* what the file's lines give on their own under the configuration,
\* whatever the files before it were and however they ended.
C22_FilesAreIndependent ==
    /\ (pc = "lines" /\ i = 0) => (~in_code_block /\ code_content = <<>>)
    /\ (pc = "file" /\ index > 0 /\ NoImageLine(lines)) =>
          /\ Len(doc.body) >= Len(OwnBlocks(lines))
          /\ BodyTail(Len(OwnBlocks(lines))) = OwnBlocks(lines)

\* The second file is done; the first ended inside a code block, and the
\* second has written blocks of its own.
C22_Witness ==
    /\ pc = "file"
    /\ index = 2
    /\ EndsInOpenFence(input_files[1].lines)
    /\ input_files[2].readable
    /\ ~is_fence(input_files[2].lines[1])
    /\ OwnBlocks(lines) # <<>>


----------------------------------------------------------------------------
(* Claims about inserted images, checked under SpecImages.                 *)

\* The image of the step was inserted: it is there, Image.open reads it
\* and add_picture takes it.
Inserted ==
    /\ AtImage
    /\ image_probe'.found /\ image_probe'.opens /\ image_probe'.accepted

\* The difference a - b without its sign.
Distance(a, b) == IF a >= b THEN a - b ELSE b - a

=============================================================================
